---- MODULE Spec2Model ----
(***************************************************************************)
(* TgBotStatus (src/main.py): one cycle of BotStatusManager.run_status_check *)
(* -- publish the initial snapshot, probe every configured bot in turn and   *)
(* publish a progress snapshot after each, publish the final report.         *)
(*                                                                           *)
(* One asyncio task runs the whole cycle, so the state machine has a single  *)
(* control point pc, and a step runs from one await to the next: the state   *)
(* between two steps is one the other tasks of the event loop can see.  The  *)
(* transport (pyrogram) is the environment: every call's outcome is an       *)
(* input.  Durations are in tenths of a second, timestamps in milliseconds.  *)
(*                                                                           *)
(* Spec is the cycle over configurations whose entries all have a bot_uname, *)
(* with destinations that raise at most MaxFlood FloodWait signals in a row; *)
(* SpecAnyName is the cycle over configurations in which some have none;     *)
(* SpecAnyFloods is the cycle with no bound on the FloodWait signals, where  *)
(* the recursion of edit_message reaches the interpreter's recursion limit;  *)
(* HelperSpec applies progress_bar, get_readable_time and the grouping of    *)
(* format_status_message to arguments of their own.  Python floats are       *)
(* computed as IEEE 754 doubles.                                             *)
(***************************************************************************)
EXTENDS Integers, Sequences, FiniteSets, TLC

\* ---------------------------------------------------------------- bounds
MaxBots == 2        \* entries of config['bots']
MaxChannels == 2    \* entries of config['channels']
MaxFlood == 1       \* FloodWait signals one edit_message call chain may meet
RecursionLimit == 2 \* depth of the edit_message recursion the interpreter allows

\* ------------------------------------------------------ program constants
InterDelay == 15    \* sleep(1.5), tenths of a second
SettleDelay == 50   \* sleep(5), tenths of a second
BackoffFactor == 12 \* sleep(f.value * 1.2): tenths of a second per second

\* ------------------------------------------------------ environment inputs
FloodValues == {1, 3}             \* FloodWait.value, seconds
PreTimes == {100700}              \* time() at line 313, milliseconds
SentIds == {10}                   \* id of the /start message just sent
TopIds == {10, 11}                \* id of the most recent history entry
Dates == {100, 102}               \* its date, whole seconds

VARIABLES
    bots,            \* config['bots'] as the ordered sequence of its entries
    nchan,           \* len(config['channels'])
    buttons,         \* bot and MSG_BUTTONS and make_buttons() is not None
    media,           \* getenv("MEDIA") is set
    pc,              \* control point of run_status_check
    idx,             \* position of the for loop in bots
    bot_no,          \* bots checked so far (local of run_status_check)
    available_bots,  \* self.available_bots
    bot_stats,       \* self.bot_stats: bot id -> stats
    text,            \* document of the running update_all_channels call
    ch,              \* channel the running update_all_channels call is at
    floods,          \* depth of the edit_message recursion
    wait,            \* f.value of the FloodWait being handled
    slept,           \* time slept since the last write attempt
    last,            \* the latest transport edit call and its outcome
    shown,           \* per channel: the document of its latest write attempt
    probe,           \* inputs of the latest check_bot_status call
    call,            \* a helper method applied on its own: name and arguments
    out              \* what that application returned

vars == <<bots, nchan, buttons, media, pc, idx, bot_no, available_bots,
          bot_stats, text, ch, floods, wait, slept, last, shown, probe,
          call, out>>

\* ------------------------------------------------------------ pure helpers
Periods == << [name |-> "d", size |-> 86400000], [name |-> "h", size |-> 3600000],
              [name |-> "m", size |-> 60000], [name |-> "s", size |-> 1000],
              [name |-> "ms", size |-> 1] >>

RECURSIVE ReadableFrom(_, _)
ReadableFrom(mseconds, i) ==
    IF i > Len(Periods) THEN << >>
    ELSE IF mseconds >= Periods[i].size
         THEN << [value |-> mseconds \div Periods[i].size, unit |-> Periods[i].name] >>
              \o ReadableFrom(mseconds % Periods[i].size, i + 1)
         ELSE ReadableFrom(mseconds, i + 1)

ZeroMs == << [value |-> 0, unit |-> "ms"] >>

\* get_readable_time(seconds), the argument given as int(seconds * 1000); the
\* result is the string's sequence of components ('1m5s' is <<1 m, 5 s>>).
get_readable_time(mseconds) ==
    IF mseconds <= 0 THEN ZeroMs
    ELSE LET result == ReadableFrom(mseconds, 1)
         IN IF result # << >> THEN result ELSE ZeroMs

\* ------------------------------------------------- binary floating point
\* Python floats are IEEE 754 doubles.  A natural number too large for one
\* integer is the sequence of its base-10000 digits, lowest first, without
\* leading zeros (<< >> is 0).
RECURSIVE BFromInt(_)
BFromInt(n) == IF n = 0 THEN << >> ELSE <<n % 10000>> \o BFromInt(n \div 10000)

RECURSIVE BToInt(_)
BToInt(x) == IF x = << >> THEN 0 ELSE Head(x) + 10000 * BToInt(Tail(x))

RECURSIVE BNorm(_)
BNorm(x) ==
    IF x = << >> THEN << >>
    ELSE IF x[Len(x)] = 0 THEN BNorm(SubSeq(x, 1, Len(x) - 1)) ELSE x

\* x * k + c, for 1 <= k <= 10000
RECURSIVE BMulAdd(_, _, _)
BMulAdd(x, k, c) ==
    IF x = << >> THEN BFromInt(c)
    ELSE LET v == Head(x) * k + c
         IN <<v % 10000>> \o BMulAdd(Tail(x), k, v \div 10000)

BMul(x, k) == BMulAdd(x, k, 0)

\* x + y + c
RECURSIVE BAdd(_, _, _)
BAdd(x, y, c) ==
    IF x = << >> THEN BMulAdd(y, 1, c)
    ELSE IF y = << >> THEN BMulAdd(x, 1, c)
    ELSE LET v == Head(x) + Head(y) + c
         IN <<v % 10000>> \o BAdd(Tail(x), Tail(y), v \div 10000)

\* quotient and remainder of (r * 10000^Len(x) + x) by d, for r < d <= 10000
RECURSIVE BDivFrom(_, _, _)
BDivFrom(x, r, d) ==
    IF x = << >> THEN [q |-> << >>, r |-> r]
    ELSE LET cur == r * 10000 + x[Len(x)]
             rest == BDivFrom(SubSeq(x, 1, Len(x) - 1), cur % d, d)
         IN [q |-> Append(rest.q, cur \div d), r |-> rest.r]

BDivMod(x, d) == LET qr == BDivFrom(x, 0, d) IN [q |-> BNorm(qr.q), r |-> qr.r]

\* -1, 0 or 1 as x is below, equal to or above y
RECURSIVE BCmpTop(_, _, _)
BCmpTop(x, y, i) ==
    IF i = 0 THEN 0
    ELSE IF x[i] < y[i] THEN -1
    ELSE IF x[i] > y[i] THEN 1
    ELSE BCmpTop(x, y, i - 1)

BCmp(x, y) ==
    IF Len(x) < Len(y) THEN -1
    ELSE IF Len(x) > Len(y) THEN 1
    ELSE BCmpTop(x, y, Len(x))

\* x * 2^s and floor(x / 2^s)
RECURSIVE BShl(_, _)
BShl(x, s) == IF s = 0 \/ x = << >> THEN x ELSE BShl(BMul(x, 2), s - 1)

RECURSIVE BShr(_, _)
BShr(x, s) == IF s = 0 \/ x = << >> THEN x ELSE BShr(BDivMod(x, 2).q, s - 1)

BOdd(x) == x # << >> /\ Head(x) % 2 = 1

\* 2^52 and 2^53: a double other than 0 is m * 2^e with 2^52 <= m < 2^53
TwoTo52 == <<496, 2737, 5996, 4503>>
TwoTo53 == <<992, 5474, 1992, 9007>>

FZero == [m |-> << >>, e |-> 0]

\* the double nearest to (N / d) * 2^e, ties to the even mantissa, for a
\* big natural N > 0 and 1 <= d <= 5000
RECURSIVE FRound(_, _, _)
FRound(N, d, e) ==
    LET qr == BDivMod(N, d)
    IN IF BCmp(qr.q, TwoTo52) < 0 THEN FRound(BMul(N, 2), d, e - 1)
       ELSE IF BCmp(qr.q, TwoTo53) >= 0 THEN FRound(N, 2 * d, e + 1)
       ELSE LET up == 2 * qr.r > d \/ (2 * qr.r = d /\ BOdd(qr.q))
                m == IF up THEN BAdd(qr.q, << >>, 1) ELSE qr.q
            IN IF BCmp(m, TwoTo53) >= 0
               THEN [m |-> TwoTo52, e |-> e + 1]
               ELSE [m |-> m, e |-> e]

\* a / b for integers 0 <= a and 1 <= b <= 5000
FDiv(a, b) == IF a = 0 THEN FZero ELSE FRound(BFromInt(a), b, 0)

\* a double times an integer 1 <= k <= 10000
FMul(F, k) == IF F.m = << >> THEN FZero ELSE FRound(BMul(F.m, k), 1, F.e)

\* F <= G for doubles F, G >= 0
FLeq(F, G) ==
    IF F.e >= G.e
    THEN BCmp(BShl(F.m, F.e - G.e), G.m) <= 0
    ELSE BCmp(F.m, BShl(G.m, G.e - F.e)) <= 0

\* int(F) for a double 0 <= F < 2^31, whose exponent is below 0
FInt(F) == BToInt(BShr(F.m, -F.e))

\* F // G for doubles F >= 0 and G > 0 with a quotient of at most bound: the
\* floor of the exact quotient
FFloorDiv(F, G, bound) ==
    CHOOSE k \in 0..bound :
        /\ k = 0 \/ FLeq([m |-> BMul(G.m, k), e |-> G.e], F)
        /\ k < bound => ~FLeq([m |-> BMul(G.m, k + 1), e |-> G.e], F)

\* 100 * round(F, 2) for a double 0 <= F < 2^20, whose exponent is below 0:
\* the integer nearest to the exact value of F * 100, ties to even
FHundredths(F) ==
    IF F.m = << >> THEN 0
    ELSE LET s == -F.e
             twice == BAdd(BMul(F.m, 200), BShl(<<1>>, s), 0)
             q == BShr(twice, s + 1)
             tie == BShl(q, s + 1) = twice
         IN IF tie /\ BOdd(q) THEN BToInt(q) - 1 ELSE BToInt(q)

\* ----------------------------------------------------------- progress_bar
\* progress_bar(current, total), lines 112-118, for total >= 1 and
\* 0 <= current: the numbers of filled and of hollow glyphs of the bar and
\* round(pct, 2) in hundredths
progress_bar(current, total) ==
    LET total_balls == IF total < 20 THEN total ELSE 20
        pct == FMul(FDiv(current, total), 100)
        hundred == FDiv(100, 1)
        p == IF FLeq(pct, hundred) THEN pct ELSE hundred
        cFull == FFloorDiv(p, FDiv(100, total_balls), 21)
    IN [filled |-> cFull,
        hollow |-> IF total_balls > cFull THEN total_balls - cFull ELSE 0,
        hundredths |-> FHundredths(pct)]

\* int(seconds * 1000), line 124, for seconds = n / 1000 with n an integer
\* (a duration of n milliseconds)
mseconds_of(n) == IF n <= 0 THEN n ELSE FInt(FMul(FDiv(n, 1000), 1000))

\* ------------------------------------------------------------ configuration
\* An entry of config['bots']: pos is its place in the mapping, id the key (0
\* is the empty string), data says whether the value is a non-empty mapping,
\* uname whether it has the key 'bot_uname'.
\* The configurations a cycle is run on: MaxBots entries with distinct keys,
\* every entry with its endpoint name; any entry may have empty data, the
\* first may have the empty key instead.
Configs ==
    { cfg \in [1..MaxBots -> [pos : 1..MaxBots, id : 0..MaxBots, data : BOOLEAN,
                              uname : {TRUE}]] :
        \A i \in DOMAIN cfg :
            /\ cfg[i].pos = i
            /\ cfg[i].id \in (IF i = 1 THEN {0, i} ELSE {i})
            /\ (cfg[i].id = 0 => cfg[i].data) }

total_bots == Len(bots)

\* `not bot_id or not bot_data` (line 376)
Invalid(e) == e.id = 0 \/ ~e.data

\* ------------------------------------------------------------- the documents
\* A document is what the claims read of it; -1 stands for "not shown".
NoDoc == [kind |-> "none", checked |-> -1, total |-> -1, available |-> -1]

initial_msg ==
    [kind |-> "initial", checked |-> 0, total |-> total_bots, available |-> -1]

\* progress_msg built before bot_no is incremented
progress_msg_stale(n) ==
    [kind |-> "progress", checked |-> n - 1, total |-> total_bots, available |-> -1]

progress_msg(n) ==
    [kind |-> "progress", checked |-> n, total |-> total_bots, available |-> -1]

format_status_message ==
    [kind |-> "final", checked |-> -1, total |-> -1, available |-> available_bots]

\* ------------------------------------------------------------------ probing
NoStats == [bot_uname |-> FALSE, status |-> "Unknown", response_time |-> << >>]

\* self.bot_stats.setdefault(bot_id, {})
setdefault(stats, id) ==
    IF id \in DOMAIN stats THEN stats
    ELSE [k \in DOMAIN stats \cup {id} |-> IF k = id THEN NoStats ELSE stats[k]]

\* What the transport does during one check_bot_status call: fail names the
\* call that raises ("none": no call raises); sent_id is the id of the message
\* sent, top_id and date those of the most recent history entry, which is the
\* message sent (dated at the send) or a later one.
ProbeInputs ==
    { [fail |-> f, sent_id |-> s, top_id |-> s, date |-> 0, pre_time |-> p] :
        f \in {"send", "settle", "resolve", "fetch"}, s \in SentIds,
        p \in PreTimes }
    \cup
    { [fail |-> f, sent_id |-> s, top_id |-> s, date |-> p \div 1000, pre_time |-> p] :
        f \in {"read", "none"}, s \in SentIds, p \in PreTimes }
    \cup
    { o \in [fail : {"read", "none"}, sent_id : SentIds, top_id : TopIds,
              date : Dates, pre_time : PreTimes] : o.top_id # o.sent_id }

NoProbe == [fail |-> "idle", sent_id |-> 0, top_id |-> 0, date |-> 0, pre_time |-> 0]

\* Classify with the no-reply branch leaving the status unset
ClassifyNoDead(st, avail, sent_id, top_id, date, pre_time) ==
    IF sent_id = top_id
    THEN [stats |-> st, available |-> avail]
    ELSE LET resp_time == date - (pre_time \div 1000)
         IN [stats |-> [st EXCEPT !.response_time = get_readable_time(resp_time * 1000),
                                  !.status = "Alive"],
             available |-> avail + 1]

\* Classify with pre_time not truncated to whole seconds
ClassifyNoFloor(st, avail, sent_id, top_id, date, pre_time) ==
    IF sent_id = top_id
    THEN [stats |-> [st EXCEPT !.status = "Dead"], available |-> avail]
    ELSE [stats |-> [st EXCEPT !.response_time = get_readable_time(date * 1000 - pre_time),
                               !.status = "Alive"],
          available |-> avail + 1]

\* Classify counting every probed bot as available
ClassifyCountsDead(st, avail, sent_id, top_id, date, pre_time) ==
    IF sent_id = top_id
    THEN [stats |-> [st EXCEPT !.status = "Dead"], available |-> avail + 1]
    ELSE LET resp_time == date - (pre_time \div 1000)
         IN [stats |-> [st EXCEPT !.response_time = get_readable_time(resp_time * 1000),
                                  !.status = "Alive"],
             available |-> avail + 1]

\* lines 336-342
Classify(st, avail, sent_id, top_id, date, pre_time) ==
    IF sent_id = top_id
    THEN [stats |-> [st EXCEPT !.status = "Dead"], available |-> avail]
    ELSE LET resp_time == date - (pre_time \div 1000)
         IN [stats |-> [st EXCEPT !.response_time = get_readable_time(resp_time * 1000),
                                  !.status = "Alive"],
             available |-> avail + 1]

\* OnException only logging
OnExceptionLogOnly(st) == st

\* lines 346-349
OnException(st) == [st EXCEPT !.status = "Dead"]

\* ---------------------------------------------------------------- publishing
EditOutcomes ==
    { [kind |-> k, value |-> 0] : k \in {"ok", "not_modified", "error"} }
    \cup { [kind |-> "flood", value |-> v] : v \in FloodValues }

NoCall == [api |-> "none", dest |-> 0, text |-> NoDoc, media |-> FALSE,
           kind |-> "none", value |-> 0]

\* edit_message_except retrying on any failure but unchanged content
edit_message_except_retry_errors(kind) ==
    CASE kind = "flood" -> "retry"
      [] kind = "not_modified" -> "return"
      [] kind = "error" -> "retry"
      [] OTHER -> "return"

\* edit_message_except without the MessageNotModified clause ahead of the retry
edit_message_except_retry_unchanged(kind) ==
    CASE kind = "flood" -> "retry"
      [] kind = "not_modified" -> "retry"
      [] kind = "error" -> "return"
      [] OTHER -> "return"

\* the except clauses of edit_message, lines 209-217
edit_message_except(kind) ==
    CASE kind = "flood" -> "retry"
      [] kind = "not_modified" -> "return"
      [] kind = "error" -> "return"
      [] OTHER -> "return"

\* The handler chosen at lines 209-217 when the call is depth calls deep in
\* the recursion of line 212: at the interpreter's recursion limit the
\* FloodWait handler raises RecursionError before it sleeps, and the error
\* leaves every edit_message of the chain.
edit_message_handler(kind, depth) ==
    IF edit_message_except(kind) = "retry" /\ depth >= RecursionLimit
    THEN "raise"
    ELSE edit_message_except(kind)

\* the for loop of update_all_channels, lines 226-239: edit_message returned
\* or raised (lines 236-239) for channel c of n
update_all_channels_next(result, c, n) ==
    IF c < n THEN "delay" ELSE "return"

\* sleep(f.value * 1.2), line 211
backoff_sleep(value) == BackoffFactor * value

\* where run_status_check goes on when update_all_channels returns
AfterBatch(kind) == IF kind = "final" THEN "done" ELSE "loop"

\* ------------------------------------------------------------------- actions
config == <<bots, nchan, buttons, media>>
helper == <<call, out>>

\* no helper method is being applied on its own
NoHelper == [fn |-> "none"]

\* BotStatusManager.__init__ over a loaded configuration out of cfgs
InitFrom(cfgs) ==
    /\ bots \in cfgs
    /\ nchan \in 0..MaxChannels
    /\ buttons \in BOOLEAN
    /\ media \in BOOLEAN
    /\ pc = "start"
    /\ idx = 1
    /\ bot_no = 0
    /\ available_bots = 0
    /\ bot_stats = << >>
    /\ text = NoDoc
    /\ ch = 0
    /\ floods = 0
    /\ wait = 0
    /\ slept = 0
    /\ last = NoCall
    /\ shown = [c \in 1..nchan |-> NoDoc]
    /\ probe = [id |-> 0, in |-> NoProbe]
    /\ call = NoHelper
    /\ out = NoHelper

Init == InitFrom(Configs)

\* update_all_channels as it would be if an empty channel list were an error
CallUpdateRaising(doc) ==
    /\ text' = doc
    /\ floods' = 0
    /\ wait' = 0
    /\ last' = NoCall
    /\ IF nchan = 0
       THEN ch' = 0 /\ pc' = "aborted"
       ELSE ch' = 1 /\ pc' = "delay"

\* update_all_channels(doc, getenv("MEDIA")) is called: lines 221-226
CallUpdate(doc) ==
    /\ text' = doc
    /\ floods' = 0
    /\ wait' = 0
    /\ last' = NoCall
    /\ IF nchan = 0
       THEN ch' = 0 /\ pc' = AfterBatch(doc.kind)
       ELSE ch' = 1 /\ pc' = "delay"

\* run_status_check up to its first await, lines 355-371 (and 374)
Start ==
    /\ pc = "start"
    /\ available_bots' = 0
    /\ bot_no' = 0
    /\ idx' = 1
    /\ CallUpdate(initial_msg)
    /\ UNCHANGED <<config, helper, bot_stats, slept, shown, probe>>

\* Delay without the sleep
DelayNoSleep ==
    /\ pc = "delay"
    /\ floods' = 0
    /\ last' = NoCall
    /\ pc' = "edit"
    /\ UNCHANGED <<config, helper, idx, bot_no, available_bots, bot_stats, text, ch,
                   wait, slept, shown, probe>>

\* await sleep(1.5), line 228, then edit_message is called
Delay ==
    /\ pc = "delay"
    /\ slept' = slept + InterDelay
    /\ floods' = 0
    /\ last' = NoCall
    /\ pc' = "edit"
    /\ UNCHANGED <<config, helper, idx, bot_no, available_bots, bot_stats, text, ch,
                   wait, shown, probe>>

\* edit_message leaves its try statement with outcome o: lines 209-217, and
\* the loop of update_all_channels goes on, lines 226-239
Handle(o) ==
    LET r == edit_message_handler(o.kind, floods)
    IN IF r = "retry"
       THEN pc' = "backoff" /\ wait' = o.value /\ UNCHANGED <<ch, floods>>
       ELSE IF update_all_channels_next(r, ch, nchan) = "delay"
            THEN pc' = "delay" /\ ch' = ch + 1 /\ wait' = 0 /\ floods' = 0
            ELSE pc' = AfterBatch(text.kind) /\ wait' = 0 /\ floods' = 0
                 /\ UNCHANGED ch

\* the content edit of edit_message, lines 181-204, with outcome o
Edit(o) ==
    /\ pc = "edit"
    /\ last' = [api |-> IF media THEN "edit_message_media" ELSE "edit_message_text",
                dest |-> ch, text |-> text, media |-> media,
                kind |-> o.kind, value |-> o.value]
    /\ shown' = [shown EXCEPT ![ch] = text]
    /\ slept' = 0
    /\ IF o.kind = "ok" /\ buttons
       THEN pc' = "markup" /\ UNCHANGED <<ch, wait, floods>>
       ELSE Handle(o)
    /\ UNCHANGED <<config, helper, idx, bot_no, available_bots, bot_stats, text, probe>>

\* bot.edit_message_reply_markup, lines 204-207, with outcome o
Markup(o) ==
    /\ pc = "markup"
    /\ last' = [api |-> "edit_message_reply_markup", dest |-> ch, text |-> text,
                media |-> media, kind |-> o.kind, value |-> o.value]
    /\ Handle(o)
    /\ UNCHANGED <<config, helper, idx, bot_no, available_bots, bot_stats, text, slept,
                   shown, probe>>

\* await sleep(f.value * 1.2) and the recursive call, lines 211-212
Backoff ==
    /\ pc = "backoff"
    /\ slept' = slept + backoff_sleep(wait)
    /\ floods' = floods + 1
    /\ pc' = "edit"
    /\ UNCHANGED <<config, helper, idx, bot_no, available_bots, bot_stats, text, ch,
                   wait, last, shown, probe>>

\* the loop skips an entry, lines 375-378
SkipInvalid ==
    /\ pc = "loop"
    /\ idx <= Len(bots)
    /\ Invalid(bots[idx])
    /\ idx' = idx + 1
    /\ UNCHANGED <<config, helper, pc, bot_no, available_bots, bot_stats, text, ch,
                   floods, wait, slept, last, shown, probe>>

\* check_bot_status is called (line 380) and runs to its first await, lines
\* 309-319: the entry of the bot is made, without a status; o is what the
\* transport is going to do during the call.  A missing 'bot_uname' raises
\* KeyError at line 310, which ends the cycle in main.
CheckBotStatus(o) ==
    /\ pc = "loop"
    /\ idx <= Len(bots)
    /\ ~Invalid(bots[idx])
    /\ LET e == bots[idx]
           s0 == setdefault(bot_stats, e.id)
       IN IF ~e.uname
          THEN /\ bot_stats' = s0
               /\ pc' = "aborted"
               /\ UNCHANGED probe
          ELSE /\ bot_stats' = [s0 EXCEPT ![e.id].bot_uname = TRUE]
               /\ probe' = [id |-> e.id, in |-> o]
               /\ pc' = "send"
    /\ UNCHANGED <<config, helper, idx, bot_no, available_bots, text, ch, floods,
                   wait, slept, last, shown>>

\* the awaited call of check_bot_status raises: the handler (lines 346-349),
\* the return, bot_no += 1 and the progress snapshot (lines 381-391)
ProbeRaises ==
    /\ bot_stats' = [bot_stats EXCEPT ![probe.id] = OnException(@)]
    /\ bot_no' = bot_no + 1
    /\ idx' = idx + 1
    /\ CallUpdate(progress_msg(bot_no + 1))
    /\ UNCHANGED <<available_bots, slept>>

\* the awaited call returns and check_bot_status runs to its next await
ProbeGoesOn(next) ==
    /\ pc' = next
    /\ UNCHANGED <<idx, bot_no, available_bots, bot_stats, text, ch, floods,
                   wait, slept, last>>

\* await client.send_message, line 319
SendMessage ==
    /\ pc = "send"
    /\ IF probe.in.fail = "send" THEN ProbeRaises ELSE ProbeGoesOn("settle")
    /\ UNCHANGED <<config, helper, shown, probe>>

\* await sleep(5), line 320
SettleWait ==
    /\ pc = "settle"
    /\ IF probe.in.fail = "settle" THEN ProbeRaises
       ELSE /\ pc' = "resolve"
            /\ slept' = slept + SettleDelay
            /\ UNCHANGED <<idx, bot_no, available_bots, bot_stats, text, ch,
                           floods, wait, last>>
    /\ UNCHANGED <<config, helper, shown, probe>>

\* await client.resolve_peer, line 325
ResolvePeer ==
    /\ pc = "resolve"
    /\ IF probe.in.fail = "resolve" THEN ProbeRaises ELSE ProbeGoesOn("fetch")
    /\ UNCHANGED <<config, helper, shown, probe>>

\* await client.invoke(GetHistory), lines 323-334, and the classification of
\* its answer, lines 336-342, up to the await of read_chat_history
GetHistory ==
    /\ pc = "fetch"
    /\ IF probe.in.fail = "fetch" THEN ProbeRaises
       ELSE LET o == probe.in
                r == Classify(bot_stats[probe.id], available_bots, o.sent_id,
                              o.top_id, o.date, o.pre_time)
            IN /\ bot_stats' = [bot_stats EXCEPT ![probe.id] = r.stats]
               /\ available_bots' = r.available
               /\ pc' = "read"
               /\ UNCHANGED <<idx, bot_no, text, ch, floods, wait, slept, last>>
    /\ UNCHANGED <<config, helper, shown, probe>>

\* await client.read_chat_history, line 344: it returns or raises (lines
\* 346-349), check_bot_status returns, the counter of checked bots goes up and
\* the progress snapshot is published (lines 381-391)
ReadChatHistory ==
    /\ pc = "read"
    /\ bot_stats' = IF probe.in.fail = "read"
                    THEN [bot_stats EXCEPT ![probe.id] = OnException(@)]
                    ELSE bot_stats
    /\ bot_no' = bot_no + 1
    /\ idx' = idx + 1
    /\ CallUpdate(progress_msg(bot_no + 1))
    /\ UNCHANGED <<config, helper, available_bots, slept, shown, probe>>

\* the loop is over: the final report, lines 394-395
Finalize ==
    /\ pc = "loop"
    /\ idx > Len(bots)
    /\ CallUpdate(format_status_message)
    /\ UNCHANGED <<config, helper, idx, bot_no, available_bots, bot_stats, slept,
                   shown, probe>>

\* a destination raises at most MaxFlood FloodWait signals in a row, fewer
\* than the recursion of edit_message can take
WithinFloodBound(o) == o.kind = "flood" => floods < MaxFlood

Next ==
    \/ Start
    \/ Delay
    \/ \E o \in EditOutcomes : WithinFloodBound(o) /\ Edit(o)
    \/ \E o \in EditOutcomes : WithinFloodBound(o) /\ Markup(o)
    \/ Backoff
    \/ SkipInvalid
    \/ \E o \in ProbeInputs : CheckBotStatus(o)
    \/ SendMessage
    \/ SettleWait
    \/ ResolvePeer
    \/ GetHistory
    \/ ReadChatHistory
    \/ Finalize

Spec == Init /\ [][Next]_vars

\* The task runs on whenever the call it awaits returns.
FairSpec == Spec /\ WF_vars(Next)

\* ---------------------------------------------------------------- properties
ProbeFailures == {"send", "settle", "resolve", "fetch"}

\* check_bot_status is running
InProbe == pc \in {"send", "settle", "resolve", "fetch", "read"}

\* check_bot_status is running and has not classified the bot yet
BeforeClassify == pc \in {"send", "settle", "resolve", "fetch"}

\* the entries the loop does not skip
Members == { i \in DOMAIN bots : ~Invalid(bots[i]) }

Recorded(i) ==
    /\ bots[i].id \in DOMAIN bot_stats
    /\ bot_stats[bots[i].id].status \in {"Alive", "Dead"}

\* the latest probe has ended on a transport failure in the send, the settle
\* wait, the peer resolution or the history fetch
ProbeFailed == probe.in.fail \in ProbeFailures /\ ~InProbe

\* C1: a transport failure raised while probing a member (in the send, the
\* settle wait, the peer resolution or the history fetch) leaves the member recorded Dead and is
\* not propagated: the cycle goes on, and it then reaches the end of the final
\* publish with every member of the configuration probed.
C1_ProbeFailureContained ==
    /\ [](ProbeFailed => /\ bot_stats[probe.id].status = "Dead"
                         /\ pc # "aborted")
    /\ (ProbeFailed ~> (pc = "done" /\ \A i \in Members : Recorded(i)))

\* a member's history fetch failed, it is recorded, and a member follows it
C1_Witness ==
    /\ probe.in.fail = "fetch"
    /\ bot_stats[probe.id].status = "Dead"
    /\ pc = "delay"
    /\ text.kind = "progress"
    /\ \E i, j \in Members : i < j /\ bots[i].id = probe.id /\ ~Recorded(j)

AliveCount == Cardinality({ k \in DOMAIN bot_stats : bot_stats[k].status = "Alive" })

\* C2: whenever the final report is the document being published, the number
\* it shows as Available Bots is the number of results whose status is Alive.
C2_AvailableEqualsAlive ==
    text.kind = "final" => text.available = AliveCount

\* an update_all_channels call is running
Publishing == pc \in {"delay", "edit", "markup", "backoff"}

Snapshot(kind, k) == [kind |-> kind, checked |-> k, total |-> Len(bots), available |-> -1]

Predecessor(doc) ==
    CASE doc.kind = "initial" -> NoDoc
      [] doc.kind = "progress" ->
            IF doc.checked = 1 THEN Snapshot("initial", 0)
            ELSE Snapshot("progress", doc.checked - 1)
      [] doc.kind = "final" ->
            IF bot_no = 0 THEN Snapshot("initial", 0)
            ELSE Snapshot("progress", bot_no)
      [] OTHER -> NoDoc

MemberIds(upto) == { bots[i].id : i \in { j \in Members : j < upto } }

PhaseOrder ==
    /\ pc = "start" => bot_stats = << >> /\ \A c \in 1..nchan : shown[c] = NoDoc
    /\ Publishing =>
          /\ text.kind \in {"initial", "progress", "final"}
          /\ ch \in 1..nchan
          /\ \A c \in 1..nchan :
                /\ c < ch => shown[c] = text
                /\ c > ch => shown[c] = Predecessor(text)
                /\ c = ch => shown[c] \in {text, Predecessor(text)}
    /\ (pc \in {"loop", "done"} \/ InProbe) => \A c \in 1..nchan : shown[c] = text
    /\ text.kind = "initial" =>
          /\ text = Snapshot("initial", 0)
          /\ Publishing => bot_stats = << >> /\ bot_no = 0
    /\ text.kind = "progress" =>
          /\ text = Snapshot("progress", bot_no)
          /\ DOMAIN bot_stats = MemberIds(IF InProbe THEN idx + 1 ELSE idx)
          /\ Cardinality(DOMAIN bot_stats)
                = (IF InProbe THEN bot_no + 1 ELSE bot_no)
    /\ text.kind = "final" =>
          /\ idx > Len(bots)
          /\ DOMAIN bot_stats = MemberIds(Len(bots) + 1)
    /\ pc = "done" => text.kind = "final"

\* C3: the snapshots and the probes follow one another in the order initial,
\* (probe k, progress k) for k = 1, 2, ..., final.  While a document is being
\* published, the channels before the current one have it and the channels
\* after still have its predecessor; between batches every channel has the
\* latest document; no probe precedes the end of the initial batch; the k-th
\* progress snapshot shows k, the number of members probed, which are the
\* first k members of the configuration; the final report comes after the
\* last member, and no step follows its batch.
C3_PhasesInSequence == []PhaseOrder /\ [][pc # "done"]_vars

\* the cycle is over after two probes, each followed by its progress snapshot
C3_Witness ==
    /\ pc = "done"
    /\ bot_no = 2
    /\ nchan = 2
    /\ \A c \in 1..nchan : shown[c].kind = "final"

\* a step in which a transport edit call ends with outcome kind
EditStepWith(kind) == pc \in {"edit", "markup"} /\ last'.kind = kind

\* the batch goes to the next destination, or returns after the last
MovesOn ==
    /\ pc' = IF ch < nchan THEN "delay"
             ELSE IF text.kind = "final" THEN "done" ELSE "loop"
    /\ ch' = IF ch < nchan THEN ch + 1 ELSE ch
    /\ text' = text

\* C4: an edit (content or buttons) that fails with an error other than a
\* rate-limit or unchanged-content signal ends the attempt on that destination
\* only: the batch goes to the next destination, or returns to the cycle
\* after the last one, as it does after a successful edit.
C4_ErrorDoesNotStopBatch == [][EditStepWith("error") => MovesOn]_vars

\* the first destination failed and the batch is at the second
C4_Witness ==
    /\ last.kind = "error"
    /\ last.dest = 1
    /\ pc = "delay"
    /\ ch = 2

\* C5: a rate-limit signal with wait D makes the publisher wait 1.2 x D and
\* then repeat the content edit on the same destination with the same
\* document and media reference; the batch attempts nothing else in between,
\* and the signal does not leave edit_message.
C5_FloodWaitRetriesSame ==
    /\ [][EditStepWith("flood") =>
             /\ pc' = "backoff"
             /\ wait' = last'.value
             /\ ch' = ch /\ text' = text]_vars
    /\ [][pc = "backoff" =>
             /\ pc' = "edit"
             /\ 10 * (slept' - slept) = 12 * (10 * wait)
             /\ ch' = ch /\ text' = text /\ last' = last]_vars
    /\ [][(pc = "edit" /\ last.kind = "flood") =>
             /\ last'.api \in {"edit_message_media", "edit_message_text"}
             /\ last'.dest = last.dest
             /\ last'.text = last.text
             /\ last'.media = last.media]_vars

\* C6: when the cycle is over the results are those of the members of the
\* configuration, one each, and every one is Alive or Dead.
C6_EveryMemberRecorded ==
    pc = "done" =>
        /\ DOMAIN bot_stats = MemberIds(Len(bots) + 1)
        /\ \A i \in Members : Recorded(i)

\* a finished cycle with an Alive and a Dead member
C6_Witness ==
    /\ pc = "done"
    /\ \E i, j \in Members : /\ bot_stats[bots[i].id].status = "Alive"
                              /\ bot_stats[bots[j].id].status = "Dead"

\* the duration a readable time stands for, in milliseconds
RECURSIVE DurationMs(_)
DurationMs(r) ==
    IF r = << >> THEN 0
    ELSE Head(r).value * (CHOOSE n \in {86400000, 3600000, 60000, 1000, 1} :
                            \E i \in DOMAIN Periods :
                                Periods[i].name = Head(r).unit /\ Periods[i].size = n)
         + DurationMs(Tail(r))

\* C7: when mark-read fails, the member's status is the one its
\* classification gave and its latency the one the classification recorded.
C7_MarkReadKeepsClassification ==
    (probe.in.fail = "read" /\ ~InProbe) =>
        LET s == bot_stats[probe.id]
            o == probe.in
        IN IF o.top_id = o.sent_id
           THEN s.status = "Dead"
           ELSE /\ s.status = "Alive"
                /\ DurationMs(s.response_time) = (o.date - o.pre_time \div 1000) * 1000

\* C8: when no transport call fails, the member is Dead exactly if the most
\* recent history entry is the probe message; otherwise it is Alive with a
\* latency of the entry's date minus the whole second of the probe time, and
\* a reply 2 seconds after the probe is recorded as '2s'.
C8_Classification ==
    (probe.in.fail = "none" /\ ~BeforeClassify) =>
        LET s == bot_stats[probe.id]
            o == probe.in
            diff == o.date - o.pre_time \div 1000
        IN /\ s.status = "Dead" <=> o.top_id = o.sent_id
           /\ o.top_id # o.sent_id =>
                 /\ s.status = "Alive"
                 /\ DurationMs(s.response_time) = diff * 1000
                 /\ diff = 2 => s.response_time = << [value |-> 2, unit |-> "s"] >>

\* a reply dated 2 seconds after the probe
C8_Witness ==
    /\ probe.in.fail = "none"
    /\ ~InProbe
    /\ probe.in.top_id # probe.in.sent_id
    /\ probe.in.date - probe.in.pre_time \div 1000 = 2
    /\ bot_stats[probe.id].status = "Alive"

\* C9 as stated: whenever a write is about to be attempted, at least the
\* inter-destination delay of 1.5 has been slept since the previous attempt.
C9_DelayBeforeEveryWrite ==
    pc = "edit" => slept >= 15

\* C9 amended: the first attempt on a destination comes after the delay of
\* 1.5; a retry comes after the wait of 1.2 x D alone.
C9_DelayBeforeFirstAttempt ==
    pc = "edit" =>
        /\ floods = 0 => slept >= 15
        /\ floods > 0 => 10 * slept = 12 * (10 * wait)

\* a retry about to be made 1.2 after a signal with wait 1
C9_Witness ==
    /\ pc = "edit"
    /\ floods = 1
    /\ wait = 1
    /\ slept = 12

\* C10: an unchanged-content signal ends the work on that destination like a
\* success: no retry, no error, the batch goes to the next destination (or
\* returns after the last), and no earlier destination is written again.
C10_UnchangedIsDone ==
    /\ [][EditStepWith("not_modified") => MovesOn /\ wait' = 0 /\ floods' = 0]_vars
    /\ [][(Publishing /\ Publishing' /\ text' = text) => ch' >= ch]_vars

\* the first destination was unchanged and the batch is at the second
C10_Witness ==
    /\ last.kind = "not_modified"
    /\ last.dest = 1
    /\ pc = "delay"
    /\ ch = 2
    /\ shown[1] = text

\* C11: an entry with an empty id or empty data gets no result, and the
\* initial and progress snapshots count only the other entries: the total
\* they show is the number of members, and the progress snapshot published
\* after the last member shows the checked count equal to the total.
C11_SkippedNotCounted ==
    /\ \A i \in DOMAIN bots :
          Invalid(bots[i]) => bots[i].id \notin DOMAIN bot_stats
    /\ text.kind \in {"initial", "progress"} =>
          /\ text.checked = Cardinality(DOMAIN bot_stats \cap MemberIds(idx))
          /\ text.total = Cardinality(Members)
    /\ (text.kind = "progress" /\ \A i \in Members : i < idx) =>
          text.checked = text.total

\* C12: with no channel configured, no update_all_channels call of the cycle
\* (initial, progress, final) starts a batch, makes a transport edit call or
\* raises, and the cycle reaches its end with every member of the
\* configuration probed and recorded.
C12_NoChannelsNoOp ==
    /\ [](nchan = 0 => /\ ~Publishing
                       /\ ch = 0
                       /\ last = NoCall
                       /\ pc # "aborted")
    /\ ((nchan = 0) ~> (pc = "done" /\ \A i \in Members : Recorded(i)))

\* a cycle without channels is over, its two members probed
C12_Witness ==
    /\ nchan = 0
    /\ pc = "done"
    /\ text.kind = "final"
    /\ bot_no = 2
    /\ \A i \in Members : Recorded(i)

\* C19 as stated: at every point of the cycle
\* 0 <= available_bots <= bot_no <= total_bots.
C19_CountersOrdered ==
    /\ 0 <= available_bots
    /\ available_bots <= bot_no
    /\ bot_no <= total_bots

\* C19 amended: 0 <= available_bots and bot_no <= total_bots at every point,
\* and available_bots <= bot_no at every point outside check_bot_status;
\* inside it, between an Alive classification and the return, available_bots
\* is at most bot_no + 1.  The cycle starts with available_bots set to 0, and
\* available_bots changes only by one, in the step that classifies a member
\* not probed before as Alive.
C19_CountersOrderedBetweenProbes ==
    /\ [](/\ 0 <= available_bots
          /\ bot_no <= total_bots
          /\ available_bots <= Cardinality(DOMAIN bot_stats)
          /\ pc # "read" => available_bots <= bot_no
          /\ pc = "read" => available_bots <= bot_no + 1)
    /\ [][pc = "start" => available_bots' = 0]_vars
    /\ [][available_bots' # available_bots =>
             /\ available_bots' = available_bots + 1
             /\ pc = "fetch" /\ pc' = "read"
             /\ probe' = probe
             /\ bot_stats[probe.id].status = "Unknown"
             /\ probe'.in.top_id # probe'.in.sent_id
             /\ bot_stats'[probe'.id].status = "Alive"]_vars

\* the second member has just been classified Alive like the first, and
\* check_bot_status has not returned yet
C19_Witness ==
    /\ pc = "read"
    /\ bot_no = 1
    /\ available_bots = 2
    /\ bot_stats[probe.id].status = "Alive"

ContentApis == {"edit_message_media", "edit_message_text"}

\* the button write of the channel at hand has just raised FloodWait and the
\* wait is over
ButtonsFlooded ==
    /\ pc = "edit"
    /\ last.api = "edit_message_reply_markup"
    /\ last.kind = "flood"

\* C20: a button write is made only with buttons configured, right after the
\* content edit of the same channel succeeded; a FloodWait raised by the
\* button write leads, after the wait, to the content edit of that channel
\* being issued again with the same document; and when that content edit
\* answers unchanged-content the batch moves on without a button write.
C20_ButtonsAfterContent ==
    /\ [](pc = "markup" => /\ buttons
                           /\ last.api \in ContentApis
                           /\ last.kind = "ok"
                           /\ last.dest = ch
                           /\ last.text = text)
    /\ [][(last' # last /\ last'.api = "edit_message_reply_markup") =>
             /\ pc = "markup"
             /\ last'.dest = last.dest
             /\ last'.text = last.text]_vars
    /\ [][(pc = "markup" /\ last'.kind = "flood") =>
             /\ pc' = "backoff"
             /\ ch' = ch /\ text' = text]_vars
    /\ [][(pc = "backoff" /\ last.api = "edit_message_reply_markup") =>
             /\ pc' = "edit"
             /\ ch' = ch /\ text' = text /\ last' = last]_vars
    /\ [][ButtonsFlooded =>
             /\ last'.api \in ContentApis
             /\ last'.dest = last.dest
             /\ last'.text = last.text
             /\ last'.kind = "not_modified" => MovesOn /\ floods' = 0]_vars

\* ------------------------------------------- entries without 'bot_uname'
\* The configurations of Configs, and those in which some entries with data
\* have no 'bot_uname' key.
ConfigsAnyName ==
    { [i \in 1..MaxBots |-> [cfg[i] EXCEPT !.uname = (i \notin S)]] :
        cfg \in Configs, S \in SUBSET (1..MaxBots) }
    \ { cfg \in [1..MaxBots -> [pos : 1..MaxBots, id : 0..MaxBots, data : BOOLEAN,
                                uname : BOOLEAN]] :
          \E i \in 1..MaxBots : ~cfg[i].uname /\ ~cfg[i].data }

InitAnyName == InitFrom(ConfigsAnyName)

SpecAnyName == InitAnyName /\ [][Next]_vars

FairSpecAnyName == SpecAnyName /\ WF_vars(Next)

\* C17: a member whose entry has data but no 'bot_uname' does not end the
\* cycle: the cycle is never aborted, and it reaches the end of the final
\* publish with every member that has a 'bot_uname' probed and recorded.
C17_MissingNameDoesNotAbort ==
    /\ [](pc # "aborted")
    /\ <>(/\ pc = "done"
          /\ \A i \in Members : bots[i].uname => Recorded(i))

\* --------------------------------------------- FloodWait without a bound
\* The cycle with destinations that may raise FloodWait at every attempt: a
\* chain of RecursionLimit signals on one destination is as deep as the
\* recursion of edit_message gets.
NextAnyFloods ==
    \/ Start
    \/ Delay
    \/ \E o \in EditOutcomes : Edit(o)
    \/ \E o \in EditOutcomes : Markup(o)
    \/ Backoff
    \/ SkipInvalid
    \/ \E o \in ProbeInputs : CheckBotStatus(o)
    \/ SendMessage
    \/ SettleWait
    \/ ResolvePeer
    \/ GetHistory
    \/ ReadChatHistory
    \/ Finalize

SpecAnyFloods == Init /\ [][NextAnyFloods]_vars

\* every transport call and every sleep returns
FairSpecAnyFloods == SpecAnyFloods /\ WF_vars(NextAnyFloods)

\* C18: when every call returns, either FloodWait is raised again and again
\* for ever or the cycle reaches the end of the final publish.  Nothing bounds
\* the retries: a FloodWait always leads to the wait and to one more attempt
\* on the same destination, with the batch, the loop and the counters where
\* they were; and when a destination answers every attempt with FloodWait from
\* some time on, it is retried for ever, the batch never leaves it, no probe
\* follows and the final publish is never finished.
C18_CompletesUnlessFloodedForEver ==
    /\ ([]<>(pc = "backoff") \/ <>(pc = "done"))
    /\ [][EditStepWith("flood") =>
             /\ pc' = "backoff"
             /\ ch' = ch /\ text' = text /\ idx' = idx /\ bot_no' = bot_no]_vars
    /\ [][pc = "backoff" =>
             /\ pc' = "edit"
             /\ ch' = ch /\ text' = text /\ idx' = idx /\ bot_no' = bot_no]_vars
    /\ (<>[](last.kind = "flood") =>
           /\ []<>(pc = "backoff")
           /\ []<>(pc = "edit")
           /\ <>[](Publishing /\ pc # "done"))

\* ----------------------------------------------- helper methods on their own
\* progress_bar and get_readable_time applied once to arguments of their own.
MaxTotal == 21      \* largest total given to progress_bar
MaxMillis == 1100   \* longest of the short durations, in milliseconds

\* durations of more than a second, a minute, an hour and a day, milliseconds
LongDurations == {59999, 60000, 61001, 3600000, 3600001, 86399999, 86400000,
                  90061000, 90061001}

cycle == <<pc, idx, bot_no, available_bots, bot_stats, text, ch, floods, wait,
           slept, last, shown, probe>>

\* a manager that runs no cycle
HelperInit ==
    /\ bots = << >>
    /\ nchan = 0
    /\ buttons = FALSE
    /\ media = FALSE
    /\ pc = "idle"
    /\ idx = 1
    /\ bot_no = 0
    /\ available_bots = 0
    /\ bot_stats = << >>
    /\ text = NoDoc
    /\ ch = 0
    /\ floods = 0
    /\ wait = 0
    /\ slept = 0
    /\ last = NoCall
    /\ shown = << >>
    /\ probe = [id |-> 0, in |-> NoProbe]
    /\ call = NoHelper
    /\ out = NoHelper

\* self.progress_bar(current, total), lines 112-118
ProgressBar(current, total) ==
    /\ call' = [fn |-> "progress_bar", current |-> current, total |-> total]
    /\ out' = progress_bar(current, total)
    /\ UNCHANGED <<config, cycle>>

\* self.get_readable_time(n / 1000), lines 120-134
GetReadableTime(n) ==
    /\ call' = [fn |-> "get_readable_time", n |-> n]
    /\ out' = get_readable_time(mseconds_of(n))
    /\ UNCHANGED <<config, cycle>>

\* ------------------------------------------------------ the grouped report
\* A configuration is here the sequence of the 'group' values of its entries
\* ("" when the entry has no 'group' key); the key of an entry is its
\* position.  The recorded results are the keys of self.bot_stats in
\* insertion order.
MaxEntries == 3     \* entries of the configuration given to the formatter

Labels == {"", "A", "B"}

\* bot_data.get('group', 'OTHER'), lines 105 and 248
group_of(cfg, id) == IF cfg[id] = "" THEN "OTHER" ELSE cfg[id]

Range(seq) == { seq[i] : i \in DOMAIN seq }

\* _extract_groups_from_config, lines 100-110: the keys of self.groups
RECURSIVE ExtractFrom(_, _, _)
ExtractFrom(cfg, i, groups) ==
    IF i > Len(cfg) THEN groups
    ELSE LET group_name == group_of(cfg, i)
         IN ExtractFrom(cfg, i + 1,
                        IF group_name \in Range(groups) THEN groups
                        ELSE Append(groups, group_name))

_extract_groups_from_config(cfg) == ExtractFrom(cfg, 1, << >>)

\* list.sort(key=...index(x[0])), lines 252-253: ids in ascending position
RECURSIVE SortByIndex(_)
SortByIndex(ids) ==
    IF ids = {} THEN << >>
    ELSE LET first == CHOOSE i \in ids : \A j \in ids : i <= j
         IN <<first>> \o SortByIndex(ids \ {first})

\* grouped_bots without the sort: the members in the order of their recording
grouped_bots_unsorted(cfg, recorded, group_name) ==
    SelectSeq(recorded, LAMBDA id : group_of(cfg, id) = group_name)

\* grouped_bots[group_name], lines 244-253
grouped_bots(cfg, recorded, group_name) ==
    SortByIndex({ id \in Range(recorded) : group_of(cfg, id) = group_name })

\* the loop over self.groups, lines 259-277
RECURSIVE KnownSections(_, _, _, _)
KnownSections(groups, i, cfg, recorded) ==
    IF i > Len(groups) THEN << >>
    ELSE LET members == grouped_bots(cfg, recorded, groups[i])
             rest == KnownSections(groups, i + 1, cfg, recorded)
         IN IF members = << >> THEN rest
            ELSE <<[group |-> groups[i], members |-> members]>> \o rest

\* the fallback, lines 279-291
FallbackSection(groups, cfg, recorded) ==
    IF grouped_bots(cfg, recorded, "OTHER") # << >> /\ "OTHER" \notin Range(groups)
    THEN <<[group |-> "OTHER", members |-> grouped_bots(cfg, recorded, "OTHER")]>>
    ELSE << >>

\* the sections of format_status_message, lines 244-291: the group headers in
\* the order written, each with the members listed under it
report_sections(groups, cfg, recorded) ==
    KnownSections(groups, 1, cfg, recorded) \o FallbackSection(groups, cfg, recorded)

\* the sequences that list the members of a set once each
Orders(ids) ==
    { p \in [1..Cardinality(ids) -> ids] :
        \A i, j \in 1..Cardinality(ids) : i # j => p[i] # p[j] }

\* a manager built on the configuration startup formats its report when the
\* configuration is cfg and the results recorded are those of recorded
FormatStatusMessage(startup, cfg, recorded) ==
    /\ call' = [fn |-> "format_status_message",
                groups |-> _extract_groups_from_config(startup),
                bots |-> cfg, bot_stats |-> recorded]
    /\ out' = report_sections(_extract_groups_from_config(startup), cfg, recorded)
    /\ UNCHANGED <<config, cycle>>

\* no helper method has been applied yet
Idle == call = NoHelper

HelperNext ==
    \/ Idle /\ \E total \in 1..MaxTotal : \E current \in 0..total :
                  ProgressBar(current, total)
    \/ Idle /\ \E n \in (-2..MaxMillis) \cup LongDurations : GetReadableTime(n)
    \/ Idle /\ \E startup, cfg \in [1..MaxEntries -> Labels] :
                  \E ids \in SUBSET (1..MaxEntries) : \E recorded \in Orders(ids) :
                      FormatStatusMessage(startup, cfg, recorded)

HelperSpec == HelperInit /\ [][HelperNext]_vars

\* the place of the first entry of the configuration with the label
FirstSeen(cfg, label) ==
    CHOOSE i \in DOMAIN cfg :
        group_of(cfg, i) = label /\ \A j \in 1..(i - 1) : group_of(cfg, j) # label

\* C13: with the configuration the manager was built on, the sections of the
\* report are the groups that have a recorded member, once each, in the order
\* in which the configuration first names them (an entry without group counts
\* as 'OTHER'); the members under a group are its recorded members in
\* configuration order; and the report is the same for every order in which
\* the same results may have been recorded.
C13_GroupOrderFromConfig ==
    (/\ call.fn = "format_status_message"
     /\ call.groups = _extract_groups_from_config(call.bots)) =>
        /\ { out[k].group : k \in DOMAIN out }
              = { group_of(call.bots, id) : id \in Range(call.bot_stats) }
        /\ \A k \in DOMAIN out :
              /\ (k > 1 => FirstSeen(call.bots, out[k - 1].group)
                              < FirstSeen(call.bots, out[k].group))
              /\ Range(out[k].members)
                    = { id \in Range(call.bot_stats) :
                          group_of(call.bots, id) = out[k].group }
              /\ \A j \in DOMAIN out[k].members :
                    j > 1 => out[k].members[j - 1] < out[k].members[j]
        /\ \A p \in Orders(Range(call.bot_stats)) :
              report_sections(call.groups, call.bots, p) = out

\* three members recorded last to first, the first and the last of group B,
\* the second of group A: the report lists B with members 1, 3 and then A
C13_Witness ==
    /\ call.fn = "format_status_message"
    /\ call.bots = <<"B", "A", "B">>
    /\ call.groups = <<"B", "A">>
    /\ call.bot_stats = <<3, 2, 1>>
    /\ out = << [group |-> "B", members |-> <<1, 3>>],
                [group |-> "A", members |-> <<2>>] >>

\* how often a member is listed in the report
Listed(id) ==
    Cardinality({ km \in (DOMAIN out) \X (1..MaxEntries) :
                    /\ km[2] \in DOMAIN out[km[1]].members
                    /\ out[km[1]].members[km[2]] = id })

\* C14: every recorded member is listed exactly once in the report, also when
\* its group is not among the groups derived at startup; the section of such a
\* group comes after the sections of all the groups derived at startup.
C14_UnknownGroupFallsBack ==
    call.fn = "format_status_message" =>
        /\ \A id \in Range(call.bot_stats) : Listed(id) = 1
        /\ \A k, l \in DOMAIN out :
              (/\ out[k].group \notin Range(call.groups)
               /\ out[l].group \in Range(call.groups)) => l < k

\* C15: for total >= 1 and 0 <= current <= total the bar has min(total, 20)
\* glyphs, of which floor(current * min(total, 20) / total) are filled (none
\* at current = 0, all at current = total), and the percentage shown is
\* current / total * 100 to two decimals.
C15_BarFill ==
    call.fn = "progress_bar" =>
        LET width == IF call.total < 20 THEN call.total ELSE 20
            exact == 10000 * call.current
            shown_t == out.hundredths * call.total
        IN /\ out.filled + out.hollow = width
           /\ out.filled = (call.current * width) \div call.total
           /\ (call.current = 0 => out.filled = 0)
           /\ (call.current = call.total => out.filled = width)
           /\ 2 * (IF shown_t < exact THEN exact - shown_t ELSE shown_t - exact)
                 <= call.total

UnitIndex(u) == CHOOSE i \in DOMAIN Periods : Periods[i].name = u

\* C16: a duration of n <= 0 milliseconds reads '0ms'; one of n > 0
\* milliseconds reads as components in the order d, h, m, s, ms, none of them
\* zero, with h < 24, m < 60, s < 60 and ms < 1000, which add up to n; the
\* reading of 90061000 ms has exactly the components d, h, m and s.
C16_ReadableTimeAddsUp ==
    call.fn = "get_readable_time" =>
        IF call.n <= 0 THEN out = ZeroMs
        ELSE /\ out # << >>
             /\ \A i \in DOMAIN out :
                   /\ out[i].value > 0
                   /\ (i > 1 => UnitIndex(out[i - 1].unit) < UnitIndex(out[i].unit))
                   /\ (out[i].unit = "h" => out[i].value < 24)
                   /\ (out[i].unit \in {"m", "s"} => out[i].value < 60)
                   /\ (out[i].unit = "ms" => out[i].value < 1000)
             /\ DurationMs(out) = call.n
             /\ (call.n = 90061000) =>
                   [i \in DOMAIN out |-> out[i].unit] = <<"d", "h", "m", "s">>

====
